---- MODULE Spec2Model ----
(***************************************************************************)
(* BookReader: an RSVP speed reader with a timed visual mode and a speech  *)
(* mode driven by the browser's speech synthesis engine.                   *)
(*                                                                         *)
(* The reader object is one record of fields (the fields of `this`, the    *)
(* two rendered DOM texts, and the browser facilities the reader talks to: *)
(* pending interval timers, the synthesis engine's utterance queue, the    *)
(* localStorage slot).  Every method is an operator from such a record to  *)
(* the record after the call, so that a handler that calls other methods   *)
(* is the composition of their operators.  Each action of the state        *)
(* machine is one whole event handler.                                     *)
(*                                                                         *)
(* Text is a sequence of one-character strings; a word is a non-empty      *)
(* sequence of non-whitespace characters.  JavaScript's 0-based indices    *)
(* are kept 0-based in the fields; only the sequence accesses add 1.       *)
(***************************************************************************)
EXTENDS Integers, Sequences, FiniteSets, TLC

VARIABLES
    words,              \* this.words
    currentIndex,       \* this.currentIndex
    isPlaying,          \* this.isPlaying
    intervalId,         \* this.intervalId (0 models null)
    wpm,                \* this.wpm
    readingMode,        \* this.readingMode
    speechQueue,        \* this.speechQueue
    isSpeechActive,     \* this.isSpeechActive
    wordDisplay,        \* elements.wordDisplay.textContent
    progressText,       \* elements.progressText.textContent, <<current, total>>
    playPauseBtnEnabled,\* ~elements.playPauseBtn.disabled
    timers,             \* the browser's pending interval timers
    synth,              \* window.speechSynthesis: utterances queued or speaking
    stale,              \* cancelled utterances whose final event is still to be dispatched
    storage,            \* localStorage['bookReaderData']: <<>> or <<snapshot>>
    speakingWhenPending,\* whether this browser reports `speaking` for a queued, unstarted utterance
    failuresLeft,       \* how many more setItem calls will throw (quota) in this behaviour
    lastOp              \* the handler that ran last (history, for reading traces)

vars == <<words, currentIndex, isPlaying, intervalId, wpm, readingMode, speechQueue,
          isSpeechActive, wordDisplay, progressText, playPauseBtnEnabled, timers,
          synth, stale, storage, speakingWhenPending, failuresLeft, lastOp>>

-----------------------------------------------------------------------------
(* Program constants *)

SPEED_ADJUSTMENT_STEP == 50
WORD_JUMP_AMOUNT == 50
MinWpm == 100
MaxWpm == 1000
DefaultWpm == 300
chunkSize == 200
SaveEvery == 10
MsPerMinute == 60000

(* Bounds of the model *)

MaxWords == 2          \* longest document loaded in the small specifications
MaxStale == 1          \* cancelled utterances whose final event is still in flight
MaxSynth == 2          \* utterances held by the synthesis engine at once
MaxSpeedSteps == 0     \* speeds explored: within this many steps of the default, a limit or a stored speed
MaxWriteFailures == 1  \* storage writes that throw in one behaviour, where any do
MaxBoundaryOffset == 6 \* boundary events report a character offset up to this
NarrationWords == 450  \* the long document of the narration specification
JumpDocWords == 60     \* the document of the jump specification
TickWords == 11        \* the document of the specification with failing writes
VisualWords == 12

-----------------------------------------------------------------------------
(* Arithmetic and text helpers *)

Min(a, b) == IF a < b THEN a ELSE b
Max(a, b) == IF a > b THEN a ELSE b

Whitespace == {" ", "\t", "\n"}
IsSpace(c) == c \in Whitespace

\* The positions where a maximal run of non-whitespace characters begins.
WordStarts(t) ==
    {i \in 1..Len(t) : ~IsSpace(t[i]) /\ (i = 1 \/ IsSpace(t[i-1]))}

WordEnd(t, i) ==
    CHOOSE j \in i..Len(t) :
        /\ \A k \in i..j : ~IsSpace(t[k])
        /\ (j = Len(t) \/ IsSpace(t[j+1]))

\* The members of S within lo..hi, in ascending order.
RECURSIVE Ascending(_, _, _)
Ascending(S, lo, hi) ==
    IF lo > hi THEN <<>>
    ELSE IF lo = hi THEN (IF lo \in S THEN <<lo>> ELSE <<>>)
    ELSE LET mid == (lo + hi) \div 2
         IN  Ascending(S, lo, mid) \o Ascending(S, mid + 1, hi)

\* text.split(/\s+/).filter(word => word.length > 0)
Tokenize(t) ==
    LET starts == Ascending(WordStarts(t), 1, Len(t))
    IN  [k \in 1..Len(starts) |-> SubSeq(t, starts[k], WordEnd(t, starts[k]))]

\* words.join(' ')
RECURSIVE JoinRange(_, _, _)
JoinRange(ws, lo, hi) ==
    IF lo > hi THEN <<>>
    ELSE IF lo = hi THEN ws[lo]
    ELSE LET mid == (lo + hi) \div 2
         IN  JoinRange(ws, lo, mid) \o <<" ">> \o JoinRange(ws, mid + 1, hi)

\* A faulty join, for comparison: the last word is left out.
Join_DropsLastWord(ws) == JoinRange(ws, 1, Len(ws) - 1)

Join(ws) == JoinRange(ws, 1, Len(ws))

\* Array.prototype.slice(start): a negative start counts from the end.
Slice(ws, start) ==
    LET n == Len(ws)
        from == IF start < 0 THEN Max(n + start, 0) ELSE Min(start, n)
    IN  SubSeq(ws, from + 1, n)

\* Array.prototype.slice(start, end) for 0 <= start.
Slice2(ws, start, end) == SubSeq(ws, start + 1, Min(end, Len(ws)))

DigitChars == <<"0", "1", "2", "3", "4", "5", "6", "7", "8", "9">>
DigitValue(c) == CHOOSE d \in 0..9 : DigitChars[d + 1] = c
IsDigit(c) == \E d \in 0..9 : DigitChars[d + 1] = c

\* String(n) for an integer n.
RECURSIVE NatToString(_)
NatToString(n) ==
    IF n < 10 THEN <<DigitChars[n + 1]>>
    ELSE NatToString(n \div 10) \o <<DigitChars[(n % 10) + 1]>>

NumToString(n) == IF n < 0 THEN <<"-">> \o NatToString(0 - n) ELSE NatToString(n)

\* parseInt(s) for a string that starts with an optional sign and a digit:
\* the value of the leading run of digits.
RECURSIVE DigitsValue(_, _)
DigitsValue(s, acc) ==
    IF Len(s) = 0 \/ ~IsDigit(s[1]) THEN acc
    ELSE DigitsValue(Tail(s), 10 * acc + DigitValue(s[1]))

parseInt(s) ==
    IF Len(s) > 0 /\ s[1] = "-" THEN 0 - DigitsValue(Tail(s), 0)
    ELSE DigitsValue(s, 0)

-----------------------------------------------------------------------------
(* The reader and its browser as one record *)

This ==
    [words |-> words, currentIndex |-> currentIndex, isPlaying |-> isPlaying,
     intervalId |-> intervalId, wpm |-> wpm, readingMode |-> readingMode,
     speechQueue |-> speechQueue, isSpeechActive |-> isSpeechActive,
     wordDisplay |-> wordDisplay, progressText |-> progressText,
     playPauseBtnEnabled |-> playPauseBtnEnabled, timers |-> timers, synth |-> synth, stale |-> stale, storage |-> storage,
     speakingWhenPending |-> speakingWhenPending, failuresLeft |-> failuresLeft]

\* window.speechSynthesis.speaking: true while the head utterance is being
\* spoken; for a queued utterance that has not begun, browsers differ.
speaking(st) ==
    /\ Len(st.synth) > 0
    /\ (st.synth[1].started \/ st.speakingWhenPending)

\* window.speechSynthesis.cancel(): the queue is emptied; each removed
\* utterance may still be sent its final event: error (interrupted or
\* canceled), or, from engines that report an interruption so, end.
cancel(st) ==
    [st EXCEPT !.synth = <<>>,
               !.stale = @ \o [i \in 1..Len(st.synth) |->
                                    [chunk |-> st.synth[i].chunk,
                                     started |-> st.synth[i].started]]]

\* window.speechSynthesis.speak(utterance)
speak(st, chunk) ==
    [st EXCEPT !.synth = Append(@, [chunk |-> chunk, lastWordIndex |-> 0,
                                    started |-> FALSE])]

updateDisplay(st) ==
    IF Len(st.words) > 0 /\ st.currentIndex < Len(st.words)
    THEN [st EXCEPT !.wordDisplay =
            IF st.currentIndex >= 0 THEN st.words[st.currentIndex + 1]
            ELSE <<>>]   \* words[-1] is undefined: textContent becomes empty
    ELSE st

updateProgress(st) ==
    [st EXCEPT !.progressText = <<st.currentIndex + 1, Len(st.words)>>]

\* The snapshot saveToLocalStorage serialises.
Snapshot(st) ==
    [text |-> Join(st.words), currentIndex |-> <<st.currentIndex>>,
     wpm |-> <<st.wpm>>, readingMode |-> <<st.readingMode>>]

\* A faulty saveToLocalStorage, for comparison: a failed write also stops
\* playback.
saveToLocalStorage_FailureStops(st, ok) ==
    IF ok THEN [st EXCEPT !.storage = <<Snapshot(st)>>]
    ELSE [st EXCEPT !.failuresLeft = @ - 1, !.isPlaying = FALSE]

\* ok: whether localStorage.setItem succeeds; a throw is caught and logged.
saveToLocalStorage(st, ok) ==
    IF ok THEN [st EXCEPT !.storage = <<Snapshot(st)>>]
    ELSE [st EXCEPT !.failuresLeft = @ - 1]

\* A faulty stop, for comparison: the interval timer is left pending.
stop_LeavesTimer(st) == [st EXCEPT !.isPlaying = FALSE]

stop(st) ==
    LET a == [st EXCEPT !.isPlaying = FALSE]
    IN  IF a.intervalId # 0
        THEN [a EXCEPT !.timers = {t \in @ : t.id # a.intervalId}, !.intervalId = 0]
        ELSE a

\* A faulty pause, for comparison: pausing steps back one word, so that
\* resuming repeats it.
pause_StepsBack(st) ==
    LET a == stop(st)
        b == [a EXCEPT !.isSpeechActive = FALSE, !.speechQueue = <<>>,
                       !.currentIndex = Max(0, @ - 1)]
    IN  IF speaking(b) THEN cancel(b) ELSE b

\* A faulty pause, for comparison: the speech flag is left as it was.
pause_LeavesSpeechActive(st) ==
    LET a == stop(st)
        b == [a EXCEPT !.speechQueue = <<>>]
    IN  IF speaking(b) THEN cancel(b) ELSE b

pause(st) ==
    LET a == stop(st)
        b == [a EXCEPT !.isSpeechActive = FALSE, !.speechQueue = <<>>]
    IN  IF speaking(b) THEN cancel(b) ELSE b

\* The chunks speakFromCurrentPosition pushes for the remaining words.
ChunksOf(remainingWords, from) ==
    LET count == (Len(remainingWords) + chunkSize - 1) \div chunkSize
    IN  [k \in 1..count |->
            LET i == (k - 1) * chunkSize
                chunk == Slice2(remainingWords, i, i + chunkSize)
            IN  [text |-> Join(chunk), startIndex |-> from + i,
                 wordCount |-> Len(chunk)]]

\* A faulty speakNextChunk, for comparison: completion leaves the cursor
\* where the last chunk's end put it.
speakNextChunk_NoFinalPosition(st) ==
    IF ~st.isSpeechActive \/ Len(st.speechQueue) = 0
    THEN IF st.isSpeechActive
         THEN pause(updateProgress(updateDisplay(st)))
         ELSE st
    ELSE speak([st EXCEPT !.speechQueue = Tail(@)], Head(st.speechQueue))

speakNextChunk(st) ==
    IF ~st.isSpeechActive \/ Len(st.speechQueue) = 0
    THEN IF st.isSpeechActive
         THEN pause(updateProgress(updateDisplay(
                  [st EXCEPT !.currentIndex = Len(st.words) - 1])))
         ELSE st
    ELSE speak([st EXCEPT !.speechQueue = Tail(@)], Head(st.speechQueue))

speakFromCurrentPosition(st) ==
    LET remainingWords == Slice(st.words, st.currentIndex)
        a == IF speaking(st) THEN cancel(st) ELSE st
        b == [a EXCEPT !.speechQueue = ChunksOf(remainingWords, st.currentIndex),
                       !.isSpeechActive = TRUE]
    IN  speakNextChunk(b)

\* setInterval hands out an id no pending timer has.
FreshTimerId(st) == CHOOSE i \in 1..(Cardinality(st.timers) + 1) :
                        \A t \in st.timers : t.id # i

play(st) ==
    LET a == IF st.currentIndex >= Len(st.words)
             THEN [st EXCEPT !.currentIndex = 0] ELSE st
        b == [a EXCEPT !.isPlaying = TRUE]
    IN  IF b.readingMode = "speech"
        THEN speakFromCurrentPosition(b)
        ELSE LET id == FreshTimerId(b)
             IN  [b EXCEPT !.intervalId = id,
                           !.timers = @ \cup {[id |-> id, num |-> MsPerMinute,
                                               den |-> b.wpm]}]

togglePlayPause(st) == IF st.isPlaying THEN pause(st) ELSE play(st)

\* value: the digits handed over (the slider's value, or a number's String).
updateSpeed(st, value, ok) ==
    LET a == [st EXCEPT !.wpm = parseInt(value)]
        b == IF a.isPlaying THEN play(stop(a)) ELSE a
    IN  IF Len(b.words) > 0 THEN saveToLocalStorage(b, ok) ELSE b

\* A faulty adjustSpeed, for comparison: the new speed is not clamped at the
\* upper limit.
adjustSpeed_NoUpperClamp(st, change, ok) ==
    LET newSpeed == Max(MinWpm, st.wpm + change)
    IN  updateSpeed(st, NumToString(newSpeed), ok)

adjustSpeed(st, change, ok) ==
    LET newSpeed == Max(MinWpm, Min(MaxWpm, st.wpm + change))
    IN  updateSpeed(st, NumToString(newSpeed), ok)

\* A faulty setReadingMode, for comparison: playback is not paused first.
setReadingMode_NoPause(st, mode, ok) ==
    LET b == [st EXCEPT !.readingMode = mode]
    IN  IF Len(b.words) > 0 THEN saveToLocalStorage(b, ok) ELSE b

setReadingMode(st, mode, ok) ==
    LET a == IF st.isPlaying THEN pause(st) ELSE st
        b == [a EXCEPT !.readingMode = mode]
    IN  IF Len(b.words) > 0 THEN saveToLocalStorage(b, ok) ELSE b

toggleMode(st, ok) ==
    setReadingMode(st, IF st.readingMode = "visual" THEN "speech" ELSE "visual", ok)

\* A faulty jumpWords, for comparison: the new index is not clamped at 0.
jumpWords_NoLowerClamp(st, amount, ok) ==
    LET newIndex == Min(Len(st.words) - 1, st.currentIndex + amount)
    IN  saveToLocalStorage(
            updateProgress(updateDisplay([st EXCEPT !.currentIndex = newIndex])), ok)

jumpWords(st, amount, ok) ==
    LET newIndex == Max(0, Min(Len(st.words) - 1, st.currentIndex + amount))
    IN  saveToLocalStorage(
            updateProgress(updateDisplay([st EXCEPT !.currentIndex = newIndex])), ok)

\* A faulty displayNextWord, for comparison: the finishing tick leaves the
\* cursor at the end.
displayNextWord_NoReset(st, ok) ==
    IF st.currentIndex >= Len(st.words)
    THEN pause(st)
    ELSE LET a == updateDisplay(st)
             b == updateProgress([a EXCEPT !.currentIndex = @ + 1])
         IN  IF b.currentIndex % SaveEvery = 0 THEN saveToLocalStorage(b, ok) ELSE b

\* A faulty displayNextWord, for comparison: at the end of the document it
\* goes back to the first word without pausing.
displayNextWord_NoPause(st, ok) ==
    IF st.currentIndex >= Len(st.words)
    THEN [st EXCEPT !.currentIndex = 0]
    ELSE LET a == updateDisplay(st)
             b == updateProgress([a EXCEPT !.currentIndex = @ + 1])
         IN  IF b.currentIndex % SaveEvery = 0 THEN saveToLocalStorage(b, ok) ELSE b

displayNextWord(st, ok) ==
    IF st.currentIndex >= Len(st.words)
    THEN [pause(st) EXCEPT !.currentIndex = 0]
    ELSE LET a == updateDisplay(st)
             b == updateProgress([a EXCEPT !.currentIndex = @ + 1])
         IN  IF b.currentIndex % SaveEvery = 0 THEN saveToLocalStorage(b, ok) ELSE b

processBookText(st, text, ok) ==
    LET a == [st EXCEPT !.words = Tokenize(text), !.currentIndex = 0]
        b == [updateDisplay(a) EXCEPT !.playPauseBtnEnabled = TRUE]
    IN  saveToLocalStorage(updateProgress(b), ok)

\* bookData.currentIndex || 0, bookData.wpm, bookData.readingMode: a field is
\* <<>> when the snapshot lacks it and <<v>> when it holds v.
OrZero(field) == IF field = <<>> \/ field[1] = 0 THEN 0 ELSE field[1]
TruthyNumber(field) == field # <<>> /\ field[1] # 0
TruthyString(field) == field # <<>> /\ field[1] # ""

\* What the slot holds need not be a snapshot.  A string JSON.parse rejects is
\* the record [raw |-> string]; a parsed object may lack text; and a field
\* holding a value of another JSON type than the program writes is the pair
\* <<type, value>>: <<"number", 5>> for a text, <<"string", digits>> for a
\* number given as a string of decimal digits.
JsonTypes == {"number", "string"}
IsTagged(field) == Len(field) = 2 /\ field[1] \in JsonTypes
Parses(stored) == "raw" \notin DOMAIN stored
HasStringText(bookData) ==
    "text" \in DOMAIN bookData /\ ~IsTagged(bookData.text)

\* Math.min's first operand, bookData.currentIndex || 0, as a number: a
\* non-empty string is truthy and Math.min converts it with ToNumber.
IndexOperand(field) ==
    IF IsTagged(field)
    THEN IF field[2] = <<>> THEN 0 ELSE parseInt(field[2])
    ELSE OrZero(field)

loadFromLocalStorage(st, ok) ==
    IF st.storage = <<>> THEN st
    \* JSON.parse throws, or bookData.text.split does: caught, nothing assigned
    ELSE IF ~Parses(st.storage[1]) \/ ~HasStringText(st.storage[1]) THEN st
    ELSE LET bookData == st.storage[1]
             a == [st EXCEPT !.words = Tokenize(bookData.text)]
             b == [a EXCEPT !.currentIndex =
                      Min(IndexOperand(bookData.currentIndex), Len(a.words) - 1)]
             c == IF IsTagged(bookData.wpm)
                  THEN IF bookData.wpm[2] = <<>> THEN b
                       ELSE updateSpeed(b, bookData.wpm[2], ok)
                  ELSE IF TruthyNumber(bookData.wpm)
                  THEN updateSpeed([b EXCEPT !.wpm = bookData.wpm[1]],
                                   NumToString(bookData.wpm[1]), ok)
                  ELSE b
             d == IF TruthyString(bookData.readingMode)
                  THEN [c EXCEPT !.readingMode = bookData.readingMode[1]]
                  ELSE c
         IN  IF Len(d.words) > 0
             THEN updateProgress([updateDisplay(d) EXCEPT !.playPauseBtnEnabled = TRUE])
             ELSE d

\* new BookReader() in a page whose localStorage slot holds `stored`.  The
\* page's markup ships the play button disabled and both texts empty; the
\* progress text is kept as the pair its template is filled from.
constructor(stored, engine, failures, ok) ==
    loadFromLocalStorage(
        [words |-> <<>>, currentIndex |-> 0, isPlaying |-> FALSE, intervalId |-> 0,
         wpm |-> DefaultWpm, readingMode |-> "visual", speechQueue |-> <<>>,
         isSpeechActive |-> FALSE, wordDisplay |-> <<>>, progressText |-> <<0, 0>>,
         playPauseBtnEnabled |-> FALSE, timers |-> {}, synth |-> <<>>, stale |-> <<>>, storage |-> stored,
         speakingWhenPending |-> engine, failuresLeft |-> failures], ok)

\* The utterance callbacks of speakNextChunk, for the utterance record u.
onstart(st, u) ==
    updateProgress(updateDisplay([st EXCEPT !.currentIndex = u.chunk.startIndex]))

\* The number of words before charIndex in the chunk's text.
WordsSpoken(u, charIndex) == Len(Tokenize(SubSeq(u.chunk.text, 1, charIndex)))

onboundaryMoves(u, name, charIndex) ==
    name = "word" /\ WordsSpoken(u, charIndex) # u.lastWordIndex

\* A faulty onboundary, for comparison: the cursor advances from where it is
\* by the words spoken since the last boundary.
onboundary_FromCursor(st, u, name, charIndex) ==
    IF onboundaryMoves(u, name, charIndex)
    THEN updateProgress(updateDisplay(
             [st EXCEPT !.currentIndex =
                 @ + WordsSpoken(u, charIndex) - u.lastWordIndex]))
    ELSE st

onboundary(st, u, name, charIndex) ==
    IF onboundaryMoves(u, name, charIndex)
    THEN updateProgress(updateDisplay(
             [st EXCEPT !.currentIndex = u.chunk.startIndex + WordsSpoken(u, charIndex)]))
    ELSE st

onend(st, u) ==
    speakNextChunk(updateProgress(updateDisplay(
        [st EXCEPT !.currentIndex = u.chunk.startIndex + u.chunk.wordCount])))

\* A faulty onerror, for comparison: the error is treated like an end and the
\* next chunk is tried.
onerror_TriesNextChunk(st) == speakNextChunk(st)

onerror(st) == pause([st EXCEPT !.isSpeechActive = FALSE])

-----------------------------------------------------------------------------
(* Inputs *)

\* A raw text of n words: odd words are "a", even words "bc", separated and
\* surrounded by irregular whitespace.
RECURSIVE RawText(_)
RawText(n) ==
    IF n = 0 THEN <<" ", "\n">>
    ELSE IF n % 2 = 1 THEN RawText(n - 1) \o <<"a", " ", "\t">>
    ELSE RawText(n - 1) \o <<"b", "c", "\n">>

Texts == {<<>>, RawText(0), RawText(MaxWords)}

Modes == {"visual", "speech"}

\* The speeds within MaxSpeedSteps arrow-key steps of the default or a limit.
NearSpeeds ==
    {w \in MinWpm..MaxWpm :
        \E a \in {MinWpm, DefaultWpm, MaxWpm}, k \in 0..MaxSpeedSteps :
            w = a + k * SPEED_ADJUSTMENT_STEP \/ w = a - k * SPEED_ADJUSTMENT_STEP}

SliderValues == {NumToString(MinWpm), NumToString(MaxWpm)}

SpeedChanges == {SPEED_ADJUSTMENT_STEP, 0 - SPEED_ADJUSTMENT_STEP}

JumpAmounts == {WORD_JUMP_AMOUNT, 0 - WORD_JUMP_AMOUNT}

BoundaryNames == {"word", "sentence"}

\* Whether the next setItem may throw.
WriteOutcomes == IF failuresLeft > 0 THEN {TRUE, FALSE} ELSE {TRUE}

-----------------------------------------------------------------------------
(* The state machine *)

\* The handler has run and left the reader as `st`: every field takes its
\* value from that one record.

Apply(st, op) ==
    \E after \in {st} :
        /\ Len(after.stale) <= MaxStale
        /\ Len(after.synth) <= MaxSynth
        /\ words' = after.words
        /\ currentIndex' = after.currentIndex
        /\ isPlaying' = after.isPlaying
        /\ intervalId' = after.intervalId
        /\ wpm' = after.wpm
        /\ readingMode' = after.readingMode
        /\ speechQueue' = after.speechQueue
        /\ isSpeechActive' = after.isSpeechActive
        /\ wordDisplay' = after.wordDisplay
        /\ progressText' = after.progressText
        /\ playPauseBtnEnabled' = after.playPauseBtnEnabled
        /\ timers' = after.timers
        /\ synth' = after.synth
        /\ stale' = after.stale
        /\ storage' = after.storage
        /\ speakingWhenPending' = after.speakingWhenPending
        /\ failuresLeft' = after.failuresLeft
        /\ lastOp' = op

\* The state new BookReader() leaves, for a slot holding one of `slots`, in a
\* browser of one of `engines`, with `failures` storage failures to come.
Constructed(slots, engines, failures) ==
    \E stored \in slots, engine \in engines :
        LET st == constructor(stored, engine, failures, TRUE)
        IN  /\ words = st.words
            /\ currentIndex = st.currentIndex
            /\ isPlaying = st.isPlaying
            /\ intervalId = st.intervalId
            /\ wpm = st.wpm
            /\ readingMode = st.readingMode
            /\ speechQueue = st.speechQueue
            /\ isSpeechActive = st.isSpeechActive
            /\ wordDisplay = st.wordDisplay
            /\ progressText = st.progressText
            /\ playPauseBtnEnabled = st.playPauseBtnEnabled
            /\ timers = st.timers
            /\ synth = st.synth
            /\ stale = st.stale
            /\ storage = st.storage
            /\ speakingWhenPending = st.speakingWhenPending
            /\ failuresLeft = st.failuresLeft
            /\ lastOp = "constructor"

\* The page is reloaded: a new reader is constructed from the slot.  Timers
\* and utterance callbacks of the old page are gone.
Reload ==
    \E ok \in WriteOutcomes :
        Apply(constructor(storage, speakingWhenPending, failuresLeft, ok), "constructor")

\* A file or the sample text has been read.
LoadBook(texts) ==
    \E text \in texts, ok \in WriteOutcomes :
        Apply(processBookText(This, text, ok), "processBookText")

\* The play/pause button once enabled, or Space with a document loaded.
TogglePlayPause ==
    /\ playPauseBtnEnabled \/ Len(words) > 0
    /\ Apply(togglePlayPause(This), IF isPlaying THEN "pause" ELSE "play")

\* The speed slider.
UpdateSpeed(values) ==
    \E value \in values, ok \in WriteOutcomes :
        Apply(updateSpeed(This, value, ok), "updateSpeed")

\* adjustSpeed called with one of `changes`; explored while the speed stays
\* within `speeds`.
AdjustSpeedBy(changes, speeds) ==
    \E change \in changes, ok \in WriteOutcomes :
        LET st == adjustSpeed(This, change, ok)
        IN  st.wpm \in speeds /\ Apply(st, "adjustSpeed")

\* ArrowUp / ArrowDown.
AdjustSpeed(speeds) == AdjustSpeedBy(SpeedChanges, speeds)

\* A reading-mode radio button.
SetReadingMode ==
    \E mode \in Modes, ok \in WriteOutcomes :
        Apply(setReadingMode(This, mode, ok), "setReadingMode")

\* The M key.
ToggleMode ==
    \E ok \in WriteOutcomes : Apply(toggleMode(This, ok), "toggleMode")

\* ArrowLeft / ArrowRight, with a document loaded.
JumpWords(amounts) ==
    /\ Len(words) > 0
    /\ \E amount \in amounts, ok \in WriteOutcomes :
        Apply(jumpWords(This, amount, ok), "jumpWords")

\* A pending interval timer fires.
Tick ==
    /\ timers # {}
    /\ \E ok \in WriteOutcomes : Apply(displayNextWord(This, ok), "displayNextWord")

\* The engine begins the utterance at the head of its queue.
EngineStart ==
    /\ Len(synth) > 0
    /\ ~synth[1].started
    /\ Apply(onstart([This EXCEPT !.synth[1].started = TRUE], synth[1]), "onstart")

\* The engine reports a boundary inside the utterance being spoken.
EngineBoundary ==
    /\ Len(synth) > 0
    /\ synth[1].started
    /\ \E name \in BoundaryNames,
          charIndex \in 0..Min(MaxBoundaryOffset, Len(synth[1].chunk.text)) :
        LET u == synth[1]
            seen == IF onboundaryMoves(u, name, charIndex)
                    THEN WordsSpoken(u, charIndex) ELSE u.lastWordIndex
        IN  Apply(onboundary([This EXCEPT !.synth[1].lastWordIndex = seen],
                             u, name, charIndex), "onboundary")

\* The engine finishes the utterance being spoken.
EngineEnd ==
    /\ Len(synth) > 0
    /\ synth[1].started
    /\ Apply(onend([This EXCEPT !.synth = Tail(@)], synth[1]), "onend")

\* The engine fails on the utterance at the head of its queue.
EngineError ==
    /\ Len(synth) > 0
    /\ Apply(onerror([This EXCEPT !.synth = Tail(@)]), "onerror")

Without(seq, i) == SubSeq(seq, 1, i - 1) \o SubSeq(seq, i + 1, Len(seq))

\* A cancelled utterance that had begun is sent end as its final event.
StaleEnd ==
    \E i \in 1..Len(stale) :
        /\ stale[i].started
        /\ Apply(onend([This EXCEPT !.stale = Without(@, i)], stale[i]), "staleEnd")

\* A cancelled utterance is sent error (interrupted, canceled) as its final event.
StaleError ==
    \E i \in 1..Len(stale) :
        Apply(onerror([This EXCEPT !.stale = Without(@, i)]), "staleError")

\* The reader in a fresh page, storage working, small documents.
Init == Constructed({<<>>}, BOOLEAN, 0)

Next ==
    \/ Reload
    \/ LoadBook(Texts)
    \/ TogglePlayPause
    \/ UpdateSpeed(SliderValues)
    \/ AdjustSpeed(NearSpeeds)
    \/ SetReadingMode
    \/ ToggleMode
    \/ JumpWords(JumpAmounts)
    \/ Tick
    \/ EngineStart
    \/ EngineBoundary
    \/ EngineEnd
    \/ EngineError
    \/ StaleEnd
    \/ StaleError

Spec == Init /\ [][Next]_vars

-----------------------------------------------------------------------------
(* Restoring whatever the slot holds *)

\* A document of n words: odd words are "a", even words "bc".
Doc(n) == [i \in 1..n |-> IF i % 2 = 1 THEN <<"a">> ELSE <<"b", "c">>]

\* What the slot may hold when the page opens: a snapshot written by this
\* program, by an earlier version of it (no readingMode), or by hand.
StoredIndexes == {<<>>, <<-1>>, <<0>>, <<1>>, <<MaxWords>>, <<MaxWords + 3>>}
StoredSpeeds ==
    {<<>>, <<MinWpm - SPEED_ADJUSTMENT_STEP>>, <<DefaultWpm>>, <<MaxWpm * 5>>}
StoredModes == {<<>>, <<"speech">>}
StoredSnapshots ==
    {[text |-> t, currentIndex |-> i, wpm |-> w, readingMode |-> m] :
        t \in {<<>>, RawText(MaxWords)}, i \in StoredIndexes,
        w \in StoredSpeeds, m \in StoredModes}

RestoreInit ==
    Constructed({<<>>} \cup {<<s>> : s \in StoredSnapshots}, {TRUE}, 0)

RestoreNext ==
    \/ Reload
    \/ LoadBook(Texts)
    \/ UpdateSpeed(SliderValues)
    \/ AdjustSpeed(MinWpm..MaxWpm)

SpecRestore == RestoreInit /\ [][RestoreNext]_vars

-----------------------------------------------------------------------------
(* Narration left alone: the user acts only while nothing plays, and the   *)
(* engine begins and finishes every utterance it is given.                 *)

NarrationLengths == {1, 2, chunkSize, chunkSize + 1, NarrationWords}
NarrationStarts == {0, 1, chunkSize - 1, chunkSize, NarrationWords - 1}
NarrationSnapshots ==
    {[text |-> Join(Doc(n)), currentIndex |-> <<p>>, wpm |-> <<DefaultWpm>>,
      readingMode |-> <<"speech">>] :
        n \in NarrationLengths, p \in NarrationStarts}

NarrationInit == Constructed({<<s>> : s \in NarrationSnapshots}, BOOLEAN, 0)

LoadWhileIdle == ~isPlaying /\ LoadBook({<<>>, Join(Doc(NarrationWords))})
PlayWhileIdle == ~isPlaying /\ TogglePlayPause
JumpWhileIdle == ~isPlaying /\ JumpWords(JumpAmounts)

NarrationNext ==
    \/ LoadWhileIdle
    \/ PlayWhileIdle
    \/ JumpWhileIdle
    \/ EngineStart
    \/ EngineBoundary
    \/ EngineEnd

SpecNarration ==
    /\ NarrationInit
    /\ [][NarrationNext]_vars
    /\ WF_vars(EngineStart)
    /\ WF_vars(EngineEnd)

-----------------------------------------------------------------------------
(* Jumping about a document longer than a jump, storage sometimes failing *)

JumpSnapshots ==
    {[text |-> Join(Doc(JumpDocWords)), currentIndex |-> <<p>>,
      wpm |-> <<DefaultWpm>>, readingMode |-> <<"visual">>] :
        p \in 0..(JumpDocWords - 1)}

AnyJumps == JumpAmounts \cup {-7, -1, 1, 7}

JumpInit == Constructed({<<s>> : s \in JumpSnapshots}, {TRUE}, MaxWriteFailures)

JumpNext ==
    \/ JumpWords(AnyJumps)
    \/ Reload

SpecJump == JumpInit /\ [][JumpNext]_vars

-----------------------------------------------------------------------------
(* Speed changes of any size, playing or not *)

AnyChanges == SpeedChanges \cup {-MaxWpm, -7, 7, MaxWpm}

SpeedSnapshots ==
    {[text |-> Join(Doc(MaxWords)), currentIndex |-> <<0>>, wpm |-> <<w>>,
      readingMode |-> <<"visual">>] : w \in {MinWpm, DefaultWpm, MaxWpm}}

SpeedInit == Constructed({<<>>} \cup {<<s>> : s \in SpeedSnapshots}, {TRUE}, 0)

SpeedNext ==
    \/ AdjustSpeedBy(AnyChanges, Int)
    \/ UpdateSpeed(SliderValues)
    \/ TogglePlayPause

SpecSpeed == SpeedInit /\ [][SpeedNext]_vars

-----------------------------------------------------------------------------
(* Storage writes that may throw, with a document long enough for the      *)
(* periodic save of visual playback; narration is left to the other        *)
(* specifications: play is pressed in visual mode only                     *)

FailingTexts == {RawText(0), RawText(TickWords)}

FailingInit == Constructed({<<>>}, {TRUE}, MaxWriteFailures)

PlayPauseVisual == readingMode = "visual" /\ TogglePlayPause

FailingNext ==
    \/ Reload
    \/ LoadBook(FailingTexts)
    \/ PlayPauseVisual
    \/ UpdateSpeed(SliderValues)
    \/ AdjustSpeed(NearSpeeds)
    \/ SetReadingMode
    \/ ToggleMode
    \/ JumpWords(JumpAmounts)
    \/ Tick

SpecFailing == FailingInit /\ [][FailingNext]_vars

-----------------------------------------------------------------------------
(* A slot that holds no snapshot, or not a well-formed one *)

Unparseable == [raw |-> <<"{", "t">>]

MalformedSnapshots ==
    {[currentIndex |-> <<1>>, wpm |-> <<MinWpm>>, readingMode |-> <<"speech">>],
     [text |-> <<"number", 5>>, currentIndex |-> <<1>>, wpm |-> <<MinWpm>>,
      readingMode |-> <<"speech">>]}
    \cup {[text |-> Join(Doc(MaxWords)), currentIndex |-> f[1], wpm |-> f[2],
           readingMode |-> <<"speech">>] :
             f \in {<<<<"string", NumToString(1)>>, <<>>>>,
                    <<<<"string", NumToString(1)>>, <<MinWpm>>>>,
                    <<<<1>>, <<"string", NumToString(MinWpm)>>>>,
                    <<<<"string", NumToString(1)>>,
                      <<"string", NumToString(MinWpm)>>>>}}

\* Whether what the slot holds is not a snapshot the program could have
\* written: unparseable, without text, or with a field of another type.
Malformed(stored) ==
    \/ ~Parses(stored)
    \/ ~HasStringText(stored)
    \/ IsTagged(stored.currentIndex)
    \/ IsTagged(stored.wpm)

MalformedSlots ==
    {<<>>, <<Unparseable>>} \cup {<<s>> : s \in MalformedSnapshots}

MalformedInit == Constructed(MalformedSlots, {TRUE}, 0)

MalformedNext ==
    \/ Reload
    \/ LoadBook(Texts)
    \/ TogglePlayPause
    \/ Tick
    \/ UpdateSpeed(SliderValues)
    \/ SetReadingMode

SpecMalformed == MalformedInit /\ [][MalformedNext]_vars

-----------------------------------------------------------------------------
(* Narration of a document of several chunks, interrupted: play, pause and *)
(* speed changes at any time, engine callbacks in any order, final events  *)
(* of cancelled utterances included                                        *)

SessionSnapshots ==
    {[text |-> Join(Doc(NarrationWords)), currentIndex |-> <<0>>,
      wpm |-> <<MinWpm>>, readingMode |-> <<"speech">>]}

SessionsInit == Constructed({<<s>> : s \in SessionSnapshots}, {TRUE}, 0)

SessionsNext ==
    \/ TogglePlayPause
    \/ UpdateSpeed({NumToString(MinWpm)})
    \/ EngineStart
    \/ EngineEnd
    \/ EngineError
    \/ StaleEnd
    \/ StaleError

SpecSessions == SessionsInit /\ [][SessionsNext]_vars

-----------------------------------------------------------------------------
(* Properties *)

Stopped ==
    /\ ~isPlaying
    /\ intervalId = 0
    /\ timers = {}
    /\ ~isSpeechActive
    /\ speechQueue = <<>>

\* C1: in every reachable state the cursor satisfies
\* 0 <= currentIndex <= len(words).
C1_CursorInRange == 0 <= currentIndex /\ currentIndex <= Len(words)

\* C2: a final event (end or error) of a cancelled utterance changes nothing:
\* the cursor, the playing flags, the chunk queue, the visual timer and the
\* utterances of a newly started session are as they were before it fired.
C2_StaleCallbackChangesNothing ==
    [][(StaleEnd \/ StaleError) =>
          UNCHANGED <<currentIndex, isPlaying, isSpeechActive, speechQueue,
                      intervalId, timers, synth>>]_vars

\* C3: at most one scheduler runs: a pending interval timer and an active
\* narration session never coexist, there is never more than one pending
\* timer, and a pending timer is the one intervalId names.
C3_OneScheduler ==
    /\ ~(intervalId # 0 /\ isSpeechActive)
    /\ ~(timers # {} /\ isSpeechActive)
    /\ Cardinality(timers) <= 1
    /\ \A t \in timers : t.id = intervalId

\* C3 witness: a visual timer is pending right after play, while the final
\* event of a cancelled narration is still in flight.
C3_Witness ==
    /\ lastOp = "play"
    /\ intervalId # 0
    /\ timers # {}
    /\ stale # <<>>

\* C4: immediately after setReadingMode returns (whatever the prior and the
\* target mode, toggleMode included) playback is stopped: isPlaying false, no
\* timer pending, isSpeechActive false, chunk queue empty.
C4_ModeSwitchStops ==
    lastOp \in {"setReadingMode", "toggleMode"} => Stopped

\* C4 witness: setReadingMode has just run on a reader that was narrating
\* (the utterance it cancelled is still owed its final event) and left the
\* mode at speech, the mode it was in.
C4_Witness ==
    /\ lastOp = "setReadingMode"
    /\ readingMode = "speech"
    /\ stale # <<>>
    /\ Stopped

\* C7 (a step that leaves lastOp = "displayNextWord" is a Tick step, and every
\* Tick step does): a timer tick with currentIndex >= len(words) cancels the timer, sets
\* isPlaying false and resets currentIndex to 0; a tick with
\* currentIndex < len(words) advances currentIndex by exactly 1 and leaves
\* playback running on the same timer.
C7_VisualTick ==
    [][lastOp' = "displayNextWord" =>
          /\ readingMode = "visual"
          /\ IF currentIndex >= Len(words)
             THEN /\ timers' = {}
                  /\ intervalId' = 0
                  /\ ~isPlaying'
                  /\ currentIndex' = 0
             ELSE /\ currentIndex' = currentIndex + 1
                  /\ isPlaying'
                  /\ timers' = timers
                  /\ intervalId' = intervalId]_vars

\* C7 witness: the finishing tick has just ended playback of a non-empty
\* document.
C7_Witness ==
    /\ lastOp = "displayNextWord"
    /\ Len(words) > 0
    /\ currentIndex = 0
    /\ ~isPlaying
    /\ timers = {}

\* The position the restore of a snapshot is described to give.
RestoredPosition(bookData) ==
    LET len == Len(Tokenize(bookData.text))
        index == bookData.currentIndex
    IN  IF len = 0 \/ index = <<>> THEN 0
        ELSE IF index[1] < 0 THEN 0
        ELSE Min(index[1], len - 1)

\* C5: restoring a snapshot sets the position to min(snapshot.currentIndex,
\* len - 1) when currentIndex is in or above the restored document's range,
\* and to 0 when it is negative or absent or the document has no words.
C5_RestoredPosition ==
    [][(lastOp' = "constructor" /\ storage # <<>>) =>
          currentIndex' = RestoredPosition(storage[1])]_vars

\* C6: in every reachable state 100 <= wpm <= 1000, whatever adjustSpeed,
\* updateSpeed and the restore of a snapshot (its wpm out of range or not)
\* did.
C6_SpeedInRange == MinWpm <= wpm /\ wpm <= MaxWpm

\* A step in which play() runs in speech mode: the play button or Space, or a
\* speed change during playback, which stops and plays again.
NarrationBegins ==
    /\ readingMode = "speech"
    /\ \/ lastOp' = "play"
       \/ isPlaying /\ lastOp' \in {"updateSpeed", "adjustSpeed"}

\* The chunks that step created: the one handed to the engine and the queue.
CreatedChunks(active, engine, queue) ==
    IF active THEN <<engine[Len(engine)].chunk>> \o queue ELSE <<>>

RECURSIVE SumWordCounts(_)
SumWordCounts(chunks) ==
    IF chunks = <<>> THEN 0
    ELSE Head(chunks).wordCount + SumWordCounts(Tail(chunks))

\* C8: when narration starts at position p in a document of n words, the
\* chunks created partition [p, n): chunk k starts at p + 200*k, every chunk
\* but the last has 200 words, the last has 1 to 200, the word counts sum to
\* n - p, and no chunk is created when n - p = 0.
C8_ChunksPartition ==
    [][NarrationBegins =>
          LET n == Len(words)
              p == IF currentIndex >= Len(words) THEN 0 ELSE currentIndex
              q == CreatedChunks(isSpeechActive', synth', speechQueue')
          IN  /\ \A k \in 1..Len(q) :
                    /\ q[k].startIndex = p + chunkSize * (k - 1)
                    /\ k < Len(q) => q[k].wordCount = chunkSize
                    /\ q[k].wordCount \in 1..chunkSize
              /\ SumWordCounts(q) = n - p
              /\ n - p = 0 => q = <<>>]_vars

\* C9: in speech mode, the engine delivering start and end for every
\* utterance, no error and no user action, playback started from any position
\* eventually is stopped (isPlaying false, isSpeechActive false, queue empty)
\* with currentIndex = len(words) - 1.
C9_NarrationCompletes ==
    (isPlaying /\ readingMode = "speech")
        ~> (Stopped /\ currentIndex = Len(words) - 1)

\* C9 witness: the end of the last of three chunks has just completed the
\* narration of the long document.
C9_Witness ==
    /\ lastOp = "onend"
    /\ Len(words) > 2 * chunkSize
    /\ Stopped
    /\ currentIndex = Len(words) - 1

\* C10: for a non-empty document, a position in range and any amount,
\* jumpWords sets currentIndex to max(0, min(len - 1, currentIndex + amount)),
\* which is within [0, len - 1], and persists the new position: the slot
\* holds it unless that write threw.
C10_JumpClamps ==
    [][\A amount \in AnyJumps :
          (/\ JumpWords({amount})
           /\ currentIndex \in 0..(Len(words) - 1)) =>
              /\ currentIndex' = Max(0, Min(Len(words) - 1, currentIndex + amount))
              /\ currentIndex' \in 0..(Len(words) - 1)
              /\ words' = words
              /\ IF failuresLeft' = failuresLeft
                 THEN storage' = <<[text |-> Join(words),
                                    currentIndex |-> <<currentIndex'>>,
                                    wpm |-> <<wpm>>,
                                    readingMode |-> <<readingMode>>]>>
                 ELSE failuresLeft' = failuresLeft - 1 /\ storage' = storage]_vars

\* C10 witness: a jump has just landed strictly inside the document, off a
\* multiple of the jump amount, and the slot holds the new position.
C10_Witness ==
    /\ lastOp = "jumpWords"
    /\ 0 < currentIndex
    /\ currentIndex < Len(words) - 1
    /\ currentIndex % WORD_JUMP_AMOUNT # 0
    /\ storage # <<>>
    /\ storage[1].currentIndex = <<currentIndex>>

\* C11: adjustSpeed(delta) sets wpm to max(100, min(1000, wpm + delta)); at
\* wpm = 100 a negative delta leaves 100 and at wpm = 1000 a positive delta
\* leaves 1000, on every repetition.
C11_AdjustSpeedClamps ==
    [][\A change \in AnyChanges :
          AdjustSpeedBy({change}, Int) =>
              /\ wpm' = Max(MinWpm, Min(MaxWpm, wpm + change))
              /\ (wpm = MinWpm /\ change < 0) => wpm' = MinWpm
              /\ (wpm = MaxWpm /\ change > 0) => wpm' = MaxWpm]_vars

\* C11 witness: adjustSpeed has just run during visual playback and left the
\* speed at the upper limit, the restarted timer running at that speed.
C11_Witness ==
    /\ lastOp = "adjustSpeed"
    /\ wpm = MaxWpm
    /\ isPlaying
    /\ \E t \in timers : t.den = MaxWpm

\* C12: a speed change (adjustSpeed or updateSpeed) while speech mode is
\* narrating leaves the session as it was: the utterance in flight is neither
\* cancelled nor issued again, and the chunk queue, currentIndex and
\* isSpeechActive are unchanged.
C12_SpeedChangeKeepsNarration ==
    [][(/\ lastOp' \in {"updateSpeed", "adjustSpeed"}
        /\ readingMode = "speech"
        /\ isPlaying
        /\ isSpeechActive) =>
          UNCHANGED <<synth, stale, speechQueue, currentIndex, isSpeechActive>>]_vars

\* C13: when the engine reports an error for an utterance it holds, playback
\* becomes stopped (isPlaying false, isSpeechActive false, queue empty), no
\* chunk is handed to the engine (by the handler, or by a later engine
\* callback while no session is active), and words and currentIndex are as
\* they were when the error arrived.
C13_ErrorStops ==
    [][/\ lastOp' = "onerror" =>
            /\ Stopped'
            /\ words' = words
            /\ currentIndex' = currentIndex
            /\ synth' \in {<<>>, Tail(synth)}
       /\ (/\ ~isSpeechActive
           /\ lastOp' \in {"onstart", "onboundary", "onend", "onerror",
                           "staleEnd", "staleError"}) =>
            /\ Len(synth') <= Len(synth)
            /\ ~isSpeechActive']_vars

\* C13 witness: the error has just ended a narration of the longest small
\* document: the reader is stopped at its first word, not at its last.
C13_Witness ==
    /\ lastOp = "onerror"
    /\ readingMode = "speech"
    /\ Len(words) = MaxWords
    /\ currentIndex = 0
    /\ wordDisplay = words[1]
    /\ Stopped
    /\ synth = <<>>

\* What a handler leaves in memory: everything but the slot and the count of
\* failures to come.
InMemory(st) ==
    [st EXCEPT !.storage = <<>>, !.failuresLeft = 0]

\* C14: a storage write that throws never changes in-memory state: from every
\* reachable state, each operation that persists (load, restore, jump, speed
\* change, mode change, visual tick) leaves words, currentIndex, wpm,
\* readingMode, the playing state and all else in memory the same whether the
\* write succeeded or failed.
C14_WriteFailureHarmless ==
    /\ \A text \in FailingTexts :
          InMemory(processBookText(This, text, FALSE))
              = InMemory(processBookText(This, text, TRUE))
    /\ \A amount \in JumpAmounts :
          InMemory(jumpWords(This, amount, FALSE))
              = InMemory(jumpWords(This, amount, TRUE))
    /\ \A value \in SliderValues :
          InMemory(updateSpeed(This, value, FALSE))
              = InMemory(updateSpeed(This, value, TRUE))
    /\ \A change \in SpeedChanges :
          InMemory(adjustSpeed(This, change, FALSE))
              = InMemory(adjustSpeed(This, change, TRUE))
    /\ \A mode \in Modes :
          InMemory(setReadingMode(This, mode, FALSE))
              = InMemory(setReadingMode(This, mode, TRUE))
    /\ InMemory(toggleMode(This, FALSE)) = InMemory(toggleMode(This, TRUE))
    /\ InMemory(displayNextWord(This, FALSE))
          = InMemory(displayNextWord(This, TRUE))
    /\ InMemory(constructor(storage, speakingWhenPending, failuresLeft, FALSE))
          = InMemory(constructor(storage, speakingWhenPending, failuresLeft, TRUE))

\* C14 witness: the 10th tick's write has just thrown: the slot still holds
\* the position of the load, and visual playback is running at word 10.
C14_Witness ==
    /\ lastOp = "displayNextWord"
    /\ failuresLeft < MaxWriteFailures
    /\ currentIndex = SaveEvery
    /\ storage # <<>>
    /\ storage[1].currentIndex = <<0>>
    /\ isPlaying
    /\ timers # {}

\* Whether the reader st is as the constructor leaves it when nothing is
\* restored.
AtDefaults(st) ==
    /\ st.words = <<>>
    /\ st.currentIndex = 0
    /\ st.wpm = DefaultWpm
    /\ st.readingMode = "visual"

\* C15: restoring from a slot that is absent or malformed (unparseable, without
\* text, or with a field of the wrong type) is all-or-nothing: the
\* constructor leaves the defaults (empty document, position 0, wpm 300, mode
\* visual), and no field comes from the bad snapshot.
C15_MalformedLeavesDefaults ==
    /\ \A stored \in MalformedSlots :
          AtDefaults(constructor(stored, speakingWhenPending, failuresLeft, TRUE))
    /\ (lastOp = "constructor" /\ (storage = <<>> \/ Malformed(storage[1])))
          => AtDefaults(This)

\* C16: within one chunk the position updates from boundary events are
\* monotonic: whatever offsets are reported, a boundary event moves
\* currentIndex (to chunk.startIndex + count) only when the count of words
\* before the offset is greater than the count of the last applied report;
\* an equal or smaller count changes nothing.
C16_BoundaryMonotonic ==
    [][lastOp' = "onboundary" =>
          /\ synth'[1].lastWordIndex >= synth[1].lastWordIndex
          /\ currentIndex' # currentIndex =>
                /\ synth'[1].lastWordIndex > synth[1].lastWordIndex
                /\ currentIndex' = synth[1].chunk.startIndex
                                      + synth'[1].lastWordIndex]_vars

\* C17: chunks are consumed strictly FIFO: when the end of an utterance hands
\* a chunk to the engine, the chunk is the head of the queue and leaves it,
\* it starts where the ended chunk stopped (none skipped, none repeated), the
\* ended utterance was the session's own, and the new utterance is the only
\* one outstanding.
C17_ChunksFifo ==
    [][(lastOp' \in {"onend", "staleEnd"} /\ speechQueue' # speechQueue) =>
          /\ speechQueue # <<>>
          /\ speechQueue' = Tail(speechQueue)
          /\ lastOp' = "onend"
          /\ synth' = <<[chunk |-> Head(speechQueue), lastWordIndex |-> 0,
                         started |-> FALSE]>>
          /\ Head(speechQueue).startIndex
                = synth[1].chunk.startIndex + synth[1].chunk.wordCount]_vars

\* C18: during visual playback the snapshot is persisted on every 10th
\* advancing tick and on the tick that finishes playback, so that after the
\* finishing tick (position back at 0, stopped) the slot holds the in-memory
\* position; storage writes that throw are left aside.
C18_TickPersists ==
    [][(lastOp' = "displayNextWord" /\ failuresLeft' = MaxWriteFailures) =>
          IF currentIndex >= Len(words)
          THEN /\ Stopped'
               /\ currentIndex' = 0
               /\ storage' # <<>>
               /\ storage'[1].currentIndex = <<currentIndex'>>
          ELSE currentIndex' % SaveEvery = 0 =>
                  /\ storage' # <<>>
                  /\ storage'[1].currentIndex = <<currentIndex'>>]_vars

\* C19: in every reachable state isPlaying is true exactly when a scheduler
\* is running: an interval timer is pending or isSpeechActive is true.
C19_PlayingIffScheduler ==
    isPlaying <=> (timers # {} \/ intervalId # 0 \/ isSpeechActive)

\* C19 witness: a narration is playing, its utterance being spoken, while the
\* final event of an utterance cancelled earlier is still in flight.
C19_Witness ==
    /\ isPlaying
    /\ isSpeechActive
    /\ timers = {}
    /\ synth # <<>>
    /\ synth[1].started
    /\ stale # <<>>

\* C20: after every operation that changes the position or the document
\* (load, restore, jump, visual tick, narration start, boundary and end) the
\* rendered output matches the state: the progress text is
\* "currentIndex+1 / len(words)" and the displayed word is words[currentIndex],
\* or blank when currentIndex is out of range.
C20_RenderMatchesState ==
    (\/ lastOp \in {"processBookText", "jumpWords", "displayNextWord",
                    "onstart", "onboundary", "onend"}
     \/ lastOp = "constructor" /\ storage # <<>>) =>
        /\ progressText = <<currentIndex + 1, Len(words)>>
        /\ wordDisplay = IF 0 <= currentIndex /\ currentIndex < Len(words)
                         THEN words[currentIndex + 1] ELSE <<>>

\* C21: persist followed by restore is a round trip: from every reachable
\* state with a non-empty document, a new reader constructed from the snapshot
\* saveToLocalStorage writes has the same words (joining with single spaces
\* and tokenizing again is the identity), the same wpm and readingMode, and
\* position min(currentIndex, len - 1).
C21_PersistRestoreRoundTrip ==
    Len(words) > 0 =>
        LET saved == saveToLocalStorage(This, TRUE)
            restored == constructor(saved.storage, speakingWhenPending,
                                    failuresLeft, TRUE)
        IN  /\ Tokenize(Join(words)) = words
            /\ restored.words = words
            /\ restored.wpm = wpm
            /\ restored.readingMode = readingMode
            /\ restored.currentIndex = Min(currentIndex, Len(words) - 1)

\* C21 witness: the page has just been reloaded from a snapshot saved with
\* the cursor past the last word, in speech mode at the top speed: the reader
\* is at the last word with that mode and speed.
C21_Witness ==
    /\ lastOp = "constructor"
    /\ Len(words) = MaxWords
    /\ currentIndex = Len(words) - 1
    /\ readingMode = "speech"
    /\ wpm = MaxWpm

-----------------------------------------------------------------------------
(* Visual playback left alone: the user acts only while nothing plays, and *)
(* the timer keeps ticking.  Narration is asked for only on the empty       *)
(* document, where play() completes at once without the engine.             *)

VisualSnapshots ==
    {[text |-> Join(Doc(n)), currentIndex |-> <<p>>, wpm |-> <<DefaultWpm>>,
      readingMode |-> <<"visual">>] :
        n \in 1..VisualWords, p \in {0, 1, SaveEvery - 1, VisualWords - 1}}

VisualInit == Constructed({<<>>} \cup {<<s>> : s \in VisualSnapshots}, {TRUE}, 0)

LoadEmptyWhileIdle == ~isPlaying /\ LoadBook({<<>>})
ModeWhileIdle == ~isPlaying /\ ToggleMode
PlayVisualWhileIdle ==
    /\ ~isPlaying
    /\ readingMode = "visual" \/ Len(words) = 0
    /\ TogglePlayPause

VisualNext ==
    \/ LoadEmptyWhileIdle
    \/ ModeWhileIdle
    \/ PlayVisualWhileIdle
    \/ JumpWhileIdle
    \/ Tick

SpecVisual ==
    /\ VisualInit
    /\ [][VisualNext]_vars
    /\ WF_vars(Tick)

\* C23: in visual mode, the timer ticking fairly and the user not acting,
\* playback started at any position start of any document, the empty one
\* included, eventually is stopped with currentIndex = 0.  Until then every
\* step is a tick: one that finds currentIndex < len(words) advances
\* currentIndex by exactly one and keeps playing, and the one that finds
\* currentIndex = len(words) stops and resets currentIndex to 0; hence
\* exactly len(words) - start advancing ticks and one finishing tick.
C23_VisualCompletes ==
    /\ [][isPlaying =>
            /\ lastOp' = "displayNextWord"
            /\ currentIndex <= Len(words)
            /\ IF currentIndex < Len(words)
               THEN /\ currentIndex' = currentIndex + 1
                    /\ isPlaying'
                    /\ timers' = timers
               ELSE /\ currentIndex' = 0
                    /\ Stopped']_vars
    /\ (isPlaying /\ readingMode = "visual") ~> (Stopped /\ currentIndex = 0)

\* C23 witness: the finishing tick has just stopped a playback of the longest
\* document, started at its first word and persisted at the tenth.
C23_Witness ==
    /\ lastOp = "displayNextWord"
    /\ Len(words) = VisualWords
    /\ Stopped
    /\ currentIndex = 0
    /\ storage # <<>>
    /\ storage[1].currentIndex = <<SaveEvery>>

\* C23 witness for the empty document: the finishing tick has just stopped a
\* playback of no words.
C23_EmptyStops ==
    /\ lastOp = "displayNextWord"
    /\ words = <<>>
    /\ Stopped
    /\ currentIndex = 0

\* C22: a pending visual timer was scheduled with period 60000 / wpm for the
\* current wpm, and it is the only one; a speed change made while the timer
\* is pending leaves exactly one timer pending, with the new period, and
\* does not change currentIndex.
C22_TimerFollowsSpeed ==
    [][/\ \A t \in timers' :
            /\ t.num = MsPerMinute
            /\ t.den = wpm'
            /\ t.id = intervalId'
       /\ Cardinality(timers') <= 1
       /\ (lastOp' \in {"updateSpeed", "adjustSpeed"} /\ timers # {}) =>
            /\ Cardinality(timers') = 1
            /\ currentIndex' = currentIndex]_vars

-----------------------------------------------------------------------------
(* Jumping while the engine narrates: the user plays and jumps, the engine  *)
(* begins, reports boundaries of and finishes the utterances it is given.   *)

JumpNarrationSnapshots ==
    {[text |-> Join(Doc(n)), currentIndex |-> <<p>>, wpm |-> <<DefaultWpm>>,
      readingMode |-> <<"speech">>] :
        n \in {MaxWords, chunkSize + 1}, p \in {0, 1}}

JumpNarrationInit ==
    Constructed({<<s>> : s \in JumpNarrationSnapshots}, BOOLEAN, 0)

JumpNarrationNext ==
    \/ PlayWhileIdle
    \/ JumpWords(JumpAmounts)
    \/ EngineStart
    \/ EngineBoundary
    \/ EngineEnd

SpecJumpNarration == JumpNarrationInit /\ [][JumpNarrationNext]_vars

\* Narration is actively speaking: a session is on and the engine has begun
\* the utterance at the head of its queue.
ActivelySpeaking ==
    /\ isPlaying
    /\ isSpeechActive
    /\ readingMode = "speech"
    /\ Len(synth) > 0
    /\ synth[1].started

\* A jump while narration is actively speaking moves the cursor and nothing
\* of the narration.
JumpLeavesNarration ==
    (lastOp' = "jumpWords" /\ ActivelySpeaking) =>
        /\ synth' = synth
        /\ stale' = stale
        /\ speechQueue' = speechQueue
        /\ isPlaying' /\ isSpeechActive'
        /\ currentIndex' \in
              {Max(0, Min(Len(words) - 1, currentIndex + a)) : a \in JumpAmounts}

\* Where the end of the utterance being spoken leaves the cursor: at the end of
\* its chunk, or, the chunk being the last, where completion puts it.
EndPosition ==
    IF speechQueue = <<>>
    THEN Len(words) - 1
    ELSE synth[1].chunk.startIndex + synth[1].chunk.wordCount

\* The cursor after this step is the one the chunk of the utterance being
\* spoken gives: its start plus the count of the boundary, or EndPosition.
CursorFromChunk ==
    currentIndex' =
        IF lastOp' = "onboundary"
        THEN synth[1].chunk.startIndex + synth'[1].lastWordIndex
        ELSE EndPosition

\* C24 as stated: a jump while narration is actively speaking leaves the
\* utterance and the chunk queue alone, and the next boundary or end of the
\* utterance being spoken sets currentIndex from its chunk.
C24_NextEventOverwritesJump ==
    [][/\ JumpLeavesNarration
       /\ (lastOp = "jumpWords" /\ ActivelySpeaking
              /\ lastOp' \in {"onboundary", "onend"}) => CursorFromChunk]_vars

\* C24, amended: a jump while narration is actively speaking leaves the
\* utterance and the chunk queue alone; the next event of the utterance being
\* spoken sets currentIndex from its chunk if it is the end or a word boundary
\* whose count differs from the last count reported, and any other boundary
\* leaves currentIndex at the jumped-to position.
C24_NextMovingEventOverwritesJump ==
    [][/\ JumpLeavesNarration
       /\ (lastOp = "jumpWords" /\ ActivelySpeaking
              /\ lastOp' \in {"onboundary", "onend"}) =>
            IF lastOp' = "onboundary"
                   /\ synth'[1].lastWordIndex = synth[1].lastWordIndex
            THEN currentIndex' = currentIndex
            ELSE CursorFromChunk]_vars

\* C24 witness: in the long document the user has jumped during the first
\* chunk, and a word boundary has put the cursor back into the chunk's text.
C24_Witness ==
    /\ lastOp = "onboundary"
    /\ Len(words) > chunkSize
    /\ ActivelySpeaking
    /\ synth[1].chunk.startIndex = 0
    /\ synth[1].lastWordIndex = 1
    /\ currentIndex = 1
    /\ storage # <<>>
    /\ storage[1].currentIndex = <<WORD_JUMP_AMOUNT + 2>>

\* C25: from any reachable state, in either mode, pause() called twice in a
\* row leaves exactly the state one call leaves: isPlaying false, no pending
\* timer, isSpeechActive false, the chunk queue empty; and pause() changes
\* none of words, currentIndex, wpm and readingMode.
C25_PauseIdempotent ==
    LET once == pause(This)
        twice == pause(once)
    IN  /\ twice = once
        /\ ~once.isPlaying
        /\ once.intervalId = 0
        /\ once.timers = {}
        /\ ~once.isSpeechActive
        /\ once.speechQueue = <<>>
        /\ once.words = words
        /\ once.currentIndex = currentIndex
        /\ once.wpm = wpm
        /\ once.readingMode = readingMode

\* C25 witness: narration of a document was being spoken past its first word
\* when pause() cancelled the utterance.
C25_Witness ==
    /\ lastOp = "pause"
    /\ readingMode = "speech"
    /\ Stopped
    /\ synth = <<>>
    /\ Len(stale) > 0
    /\ stale[1].started
    /\ currentIndex = 1

\* C25 witness in visual mode: pause() has cleared the timer after the first
\* word was shown.
C25_PausedVisual ==
    /\ lastOp = "pause"
    /\ readingMode = "visual"
    /\ Stopped
    /\ Len(words) = MaxWords
    /\ currentIndex = 1

====
